---- MODULE Spec2Model ----
(***************************************************************************)
(* A model of the two Gmail triage scripts of life-automation:             *)
(*   "filter"  = src/gmail_priority.py       (posts every priority >= 4)   *)
(*   "digest"  = src/gmail_priority/main.py  (posts one sorted digest)     *)
(* One run of main() is one behaviour.  The collaborators (Gmail, the      *)
(* model API, the Slack webhook) are nondeterministic: every call either   *)
(* returns a value drawn from a bounded set or raises.                     *)
(***************************************************************************)
EXTENDS Naturals, Integers, Sequences, FiniteSets, TLC

VARIABLES
    variant,      \* which script runs: "filter" or "digest"
    webhook_url,  \* os.environ.get("SLACK_WEBHOOK_URL"): "unset", "empty", "set"
    pc,           \* position of main()
    exit_status,  \* "running", "ok" (exit 0), "error" (sys.exit(msg) or uncaught exception)
    failure,      \* what ended an "error" run ("" otherwise)
    stubs,        \* message_stubs: the ids returned by messages().list
    emails,       \* emails: one record per fetched message, in fetch order
    response,     \* response.content: the content blocks the model answered with
    text,         \* the local `text` of score_emails (a sequence of tokens)
    scores,       \* the list score_emails returns
    paired,       \* high_priority (filter) / paired (digest): (email, score) pairs
    idx,          \* filter: number of pairs of high_priority already posted
    msg,          \* the rendered text about to be posted
    outbox,       \* every requests.post made: [text, ok]
    rendered,     \* number of (email, score) pairs rendered so far
    calls,        \* number of calls made to each collaborator
    log           \* the stages the run has entered, in order

vars == << variant, webhook_url, pc, exit_status, failure, stubs, emails, response,
           text, scores, paired, idx, msg, outbox, rendered, calls, log >>

\* ---------------------------------------------------------------- bounds

\* most messages the mailbox listing returns
MaxMsgs == 2

\* most thinking blocks before, and after, the text block of a model response
MaxThinking == 1

\* ---------------------------------------------------------------- helpers

Min(a, b) == IF a <= b THEN a ELSE b

\* ---------------------------------------------------------------- text

\* A text is a sequence of tokens.  "fence" is ```, "nl" is a newline, "sp" a
\* blank, "tag" a language tag such as json, "prose" any other non-JSON text,
\* and "array" a serialized JSON array whose value is v.
Tok(k) == [k |-> k, v |-> << >>]

ArrayTok(a) == [k |-> "array", v |-> a]

IsSpace(t) == t.k \in {"nl", "sp"}

RECURSIVE lstrip(_)
lstrip(t) == IF t # << >> /\ IsSpace(Head(t)) THEN lstrip(Tail(t)) ELSE t

RECURSIVE rstrip(_)
rstrip(t) == IF t # << >> /\ IsSpace(t[Len(t)]) THEN rstrip(SubSeq(t, 1, Len(t) - 1)) ELSE t

\* str.strip()
strip(t) == rstrip(lstrip(t))

\* text.startswith("```")
startswith_fence(t) == t # << >> /\ Head(t).k = "fence"

\* text.split("\n", 1)[-1]: what follows the first newline, the whole text without one
split_nl_last(t) ==
    LET nls == { i \in DOMAIN t : t[i].k = "nl" }
    IN  IF nls = {} THEN t
        ELSE LET i == CHOOSE i \in nls : \A j \in nls : i <= j
             IN  SubSeq(t, i + 1, Len(t))

\* text.rsplit("```", 1)[0]: what precedes the last fence, the whole text without one
rsplit_fence_first(t) ==
    LET fs == { i \in DOMAIN t : t[i].k = "fence" }
    IN  IF fs = {} THEN t
        ELSE LET i == CHOOSE i \in fs : \A j \in fs : j <= i
             IN  SubSeq(t, 1, i - 1)

\* json.loads: leading and trailing whitespace is accepted, anything else
\* around the one JSON value raises
json_loads(t) ==
    LET s == strip(t)
    IN  IF Len(s) = 1 /\ s[1].k = "array"
        THEN [ok |-> TRUE, value |-> s[1].v]
        ELSE [ok |-> FALSE, value |-> << >>]

\* ---------------------------------------------------------------- scorer

TextBlock(t) == [type |-> "text", text |-> t]

ThinkingBlock == [type |-> "thinking", text |-> << >>]

\* a slip: the filter script reading response.content[0].text
first_text_block_first_only(content) ==
    IF content = << >> \/ content[1].type # "text"
    THEN [ok |-> FALSE, text |-> << >>]
    ELSE [ok |-> TRUE, text |-> content[1].text]

\* filter: next(b.text for b in response.content if b.type == "text");
\* StopIteration when no block is a text block
first_text_block(content) ==
    LET ts == { i \in DOMAIN content : content[i].type = "text" }
    IN  IF ts = {} THEN [ok |-> FALSE, text |-> << >>]
        ELSE LET i == CHOOSE i \in ts : \A j \in ts : i <= j
             IN  [ok |-> TRUE, text |-> content[i].text]

\* digest: response.content[0].text.strip(); IndexError on an empty content,
\* AttributeError when the first block is a thinking block (it has no .text)
content0_text(content) ==
    IF content = << >> \/ content[1].type # "text"
    THEN [ok |-> FALSE, text |-> << >>]
    ELSE [ok |-> TRUE, text |-> strip(content[1].text)]

extract_text(v, content) ==
    IF v = "filter" THEN first_text_block(content) ELSE content0_text(content)

\* digest: if text.startswith("```"): drop the first line, then what follows
\* the last fence, then strip
strip_fences(t) ==
    IF startswith_fence(t) THEN strip(rsplit_fence_first(split_nl_last(t))) ELSE t

\* what is handed to json.loads: text.strip() (filter), the fence-stripped text (digest)
cleaned(v, t) == IF v = "filter" THEN strip(t) ELSE strip_fences(t)

\* score_emails from the response on: the returned list, or ok = FALSE when it raises
parse_response(v, content) ==
    LET x == extract_text(v, content)
    IN  IF x.ok THEN json_loads(cleaned(v, x.text)) ELSE [ok |-> FALSE, value |-> << >>]

\* ---------------------------------------------------------------- inputs

\* the priorities a response may hold (the rubric is 1..5; 4 is the filter's threshold)
Priorities == {3, 4, 5}

\* one entry of the response array, an object of the schema the prompt demands
\* (entries without these keys, which raise KeyError where they are read, are
\* left out); the filter script never reads action_needed
ScoreValues(v) ==
    [priority : Priorities, action_needed : IF v = "digest" THEN BOOLEAN ELSE {FALSE}]

\* the arrays a response to n emails may hold: n entries, one fewer or one more
ScoreArrays(v, n) ==
    UNION { [1..k -> ScoreValues(v)] : k \in {n - 1, n, n + 1} \cap Nat }

\* the ways a response text may carry the array a
Bare(a) == << ArrayTok(a) >>

Padded(a) == << Tok("nl"), ArrayTok(a), Tok("nl") >>

FencedTagNl(a) ==
    << Tok("fence"), Tok("tag"), Tok("nl"), ArrayTok(a), Tok("nl"), Tok("fence") >>

FencedNl(a) == << Tok("fence"), Tok("nl"), ArrayTok(a), Tok("nl"), Tok("fence") >>

FencedTagInline(a) ==
    << Tok("fence"), Tok("tag"), Tok("sp"), ArrayTok(a), Tok("sp"), Tok("fence") >>

FencedInline(a) == << Tok("fence"), ArrayTok(a), Tok("fence") >>

Fenced(a) == { FencedTagNl(a), FencedNl(a), FencedTagInline(a), FencedInline(a) }

Texts(v, n) ==
    UNION { {Bare(a), Padded(a)} \cup Fenced(a) : a \in ScoreArrays(v, n) }
        \cup { << Tok("prose") >> }

Thinking(k) == [i \in 1..k |-> ThinkingBlock]

\* the contents a response may have: one text block with thinking blocks
\* before and after it, or thinking blocks alone
Contents(v, n) ==
    { Thinking(b) \o << TextBlock(t) >> \o Thinking(a) :
        t \in Texts(v, n),
        b \in 0..MaxThinking, a \in 0..MaxThinking }
    \cup { Thinking(k) : k \in 1..MaxThinking }

\* ---------------------------------------------------------------- renderer

\* filter: the threshold of `scores[i]["priority"] >= 4`
PriorityThreshold == 4

\* PRIORITY_EMOJI.get(priority, default): the symbols are named by their
\* priority, and the default is the symbol of priority 1
PRIORITY_EMOJI(p) == IF p \in 1..5 THEN p ELSE 1

Pair(e, s) == [email |-> e, score |-> s]

\* filter: [(emails[i], scores[i]) for i in range(len(emails))
\*          if scores[i]["priority"] >= 4], on len(scores) >= len(emails)
RECURSIVE high_priority_from(_, _, _)
high_priority_from(es, ss, i) ==
    IF i > Len(es) THEN << >>
    ELSE (IF ss[i].priority >= PriorityThreshold THEN << Pair(es[i], ss[i]) >> ELSE << >>)
         \o high_priority_from(es, ss, i + 1)

\* a slip: > instead of >= in the filter's comprehension
high_priority_gt(es, ss) ==
    LET sel == { i \in 1..Len(es) : ss[i].priority > PriorityThreshold }
        RECURSIVE from(_)
        from(i) == IF i > Len(es) THEN << >>
                   ELSE (IF i \in sel THEN << Pair(es[i], ss[i]) >> ELSE << >>) \o from(i + 1)
    IN  from(1)

high_priority(es, ss) == high_priority_from(es, ss, 1)

\* digest: zip(emails, scores) stops at the shorter of the two
zip(es, ss) == [i \in 1..Min(Len(es), Len(ss)) |-> Pair(es[i], ss[i])]

\* one step of a stable descending sort: p goes after every pair of the
\* sorted prefix whose priority is at least its own
insert_desc(sorted, p) ==
    LET k == Cardinality({ i \in DOMAIN sorted : sorted[i].score.priority >= p.score.priority })
    IN  SubSeq(sorted, 1, k) \o << p >> \o SubSeq(sorted, k + 1, Len(sorted))

RECURSIVE sort_from(_, _, _)
sort_from(ps, sorted, i) ==
    IF i > Len(ps) THEN sorted ELSE sort_from(ps, insert_desc(sorted, ps[i]), i + 1)

\* a slip: sorted(pairs, key=...)[::-1], which reverses the ties too
sorted_ascending_reversed(ps) ==
    LET RECURSIVE asc(_, _)
        asc(sorted, i) ==
            IF i > Len(ps) THEN sorted
            ELSE LET k == Cardinality({ j \in DOMAIN sorted :
                                          sorted[j].score.priority <= ps[i].score.priority })
                 IN  asc(SubSeq(sorted, 1, k) \o << ps[i] >> \o SubSeq(sorted, k + 1, Len(sorted)),
                         i + 1)
        a == asc(<< >>, 1)
    IN  [i \in DOMAIN a |-> a[Len(a) + 1 - i]]

\* digest: sorted(pairs, key=lambda x: x[1]["priority"], reverse=True);
\* Python's sort is stable, also with reverse=True
sorted_by_priority_desc(ps) == sort_from(ps, << >>, 1)

\* one rendered entry: the symbol, the priority, the message (its id stands for
\* subject, sender and link), and the digest's action tag
Entry(p, v) ==
    [ emoji    |-> PRIORITY_EMOJI(p.score.priority),
      priority |-> p.score.priority,
      id       |-> p.email.id,
      action   |-> v = "digest" /\ p.score.action_needed ]

\* filter: the text post_to_slack builds for one pair (no header)
render_one(p) == [header |-> << >>, entries |-> << Entry(p, "filter") >>]

\* digest: the header with len(emails), then one entry per pair, in order
render_digest(es, ps) ==
    [header |-> << Len(es) >>, entries |-> [i \in DOMAIN ps |-> Entry(ps[i], "digest")]]

\* ---------------------------------------------------------------- main()

NoCalls == [auth |-> 0, list |-> 0, get |-> 0, model |-> 0, webhook |-> 0]

Init ==
    /\ variant \in {"filter", "digest"}
    /\ webhook_url \in {"unset", "empty", "set"}
    /\ pc = "start"
    /\ exit_status = "running"
    /\ failure = ""
    /\ stubs = << >>
    /\ emails = << >>
    /\ response = << >>
    /\ text = << >>
    /\ scores = << >>
    /\ paired = << >>
    /\ idx = 0
    /\ msg = [header |-> << >>, entries |-> << >>]
    /\ outbox = << >>
    /\ rendered = 0
    /\ calls = NoCalls
    /\ log = << >>

\* the run enters a stage (a stage it is already in is not entered again)
Entered(stage) == IF log # << >> /\ log[Len(log)] = stage THEN log ELSE Append(log, stage)

\* return from main(): exit status 0
ExitOk == pc' = "exit" /\ exit_status' = "ok" /\ failure' = ""

\* sys.exit(message) or an uncaught exception: non-zero exit status
Raise(why) == pc' = "exit" /\ exit_status' = "error" /\ failure' = why

\* a slip: `if webhook_url is None`, which lets an empty URL through
CheckWebhookUrl_NoneOnly ==
    /\ pc = "start"
    /\ log' = Entered("config")
    /\ IF webhook_url = "unset"
       THEN Raise("config")
       ELSE pc' = "auth" /\ UNCHANGED << exit_status, failure >>
    /\ UNCHANGED << variant, webhook_url, stubs, emails, response, text, scores, paired,
                    idx, msg, outbox, rendered, calls >>

\* webhook_url = os.environ.get("SLACK_WEBHOOK_URL"); if not webhook_url: sys.exit(...)
CheckWebhookUrl ==
    /\ pc = "start"
    /\ log' = Entered("config")
    /\ IF webhook_url \in {"unset", "empty"}
       THEN Raise("config")
       ELSE pc' = "auth" /\ UNCHANGED << exit_status, failure >>
    /\ UNCHANGED << variant, webhook_url, stubs, emails, response, text, scores, paired,
                    idx, msg, outbox, rendered, calls >>

\* service = get_gmail_service(): returns the service, or exits / raises
get_gmail_service ==
    /\ pc = "auth"
    /\ log' = Entered("auth")
    /\ calls' = [calls EXCEPT !.auth = @ + 1]
    /\ \E ok \in BOOLEAN :
        IF ok THEN pc' = "list" /\ UNCHANGED << exit_status, failure >>
        ELSE Raise("auth")
    /\ UNCHANGED << variant, webhook_url, stubs, emails, response, text, scores, paired,
                    idx, msg, outbox, rendered >>

\* fetch_unread_emails: messages().list(...).execute(); result.get("messages", []).
\* The listing is newest first; ids stand for the messages.
ListMessages ==
    /\ pc = "list"
    /\ log' = Entered("fetch")
    /\ calls' = [calls EXCEPT !.list = @ + 1]
    /\ \/ \E n \in 0..MaxMsgs :
            /\ stubs' = [i \in 1..n |-> n + 1 - i]
            /\ pc' = "get"
            /\ UNCHANGED << exit_status, failure >>
       \/ Raise("fetch") /\ UNCHANGED stubs
    /\ UNCHANGED << variant, webhook_url, emails, response, text, scores, paired,
                    idx, msg, outbox, rendered >>

\* fetch_unread_emails: one pass of `for stub in message_stubs`
GetMessage ==
    /\ pc = "get"
    /\ Len(emails) < Len(stubs)
    /\ calls' = [calls EXCEPT !.get = @ + 1]
    /\ \/ /\ emails' = Append(emails, [id |-> stubs[Len(emails) + 1]])
          /\ UNCHANGED << pc, exit_status, failure >>
       \/ Raise("fetch") /\ UNCHANGED emails
    /\ UNCHANGED << variant, webhook_url, stubs, response, text, scores, paired,
                    idx, msg, outbox, rendered, log >>

\* a slip: main() without its `if not emails` early return
CheckEmails_NoEmptyCheck ==
    /\ pc = "get"
    /\ Len(emails) = Len(stubs)
    /\ pc' = "create"
    /\ UNCHANGED << variant, webhook_url, exit_status, failure, stubs, emails, response,
                    text, scores, paired, idx, msg, outbox, rendered, calls, log >>

\* a slip: `return emails` indented into the loop of fetch_unread_emails
CheckEmails_ReturnInLoop ==
    /\ pc = "get"
    /\ Len(emails) = Len(stubs) \/ emails # << >>
    /\ IF emails = << >> THEN ExitOk
       ELSE pc' = "create" /\ UNCHANGED << exit_status, failure >>
    /\ UNCHANGED << variant, webhook_url, stubs, emails, response, text, scores, paired,
                    idx, msg, outbox, rendered, calls, log >>

\* fetch_unread_emails returns; if not emails: print("Nothing to process."); return
CheckEmails ==
    /\ pc = "get"
    /\ Len(emails) = Len(stubs)
    /\ IF emails = << >> THEN ExitOk
       ELSE pc' = "create" /\ UNCHANGED << exit_status, failure >>
    /\ UNCHANGED << variant, webhook_url, stubs, emails, response, text, scores, paired,
                    idx, msg, outbox, rendered, calls, log >>

\* score_emails: response = client.messages.create(...), one call for all emails
messages_create ==
    /\ pc = "create"
    /\ log' = Entered("score")
    /\ calls' = [calls EXCEPT !.model = @ + 1]
    /\ \/ /\ response' \in Contents(variant, Len(emails))
          /\ pc' = "extract"
          /\ UNCHANGED << exit_status, failure >>
       \/ Raise("model") /\ UNCHANGED response
    /\ UNCHANGED << variant, webhook_url, stubs, emails, text, scores, paired,
                    idx, msg, outbox, rendered >>

\* score_emails: the text of the response
ExtractText ==
    /\ pc = "extract"
    /\ LET x == extract_text(variant, response)
       IN  IF x.ok
           THEN /\ text' = x.text
                /\ pc' = "loads"
                /\ UNCHANGED << exit_status, failure >>
           ELSE Raise("content") /\ UNCHANGED text
    /\ UNCHANGED << variant, webhook_url, stubs, emails, response, scores, paired,
                    idx, msg, outbox, rendered, calls, log >>

\* score_emails: return json.loads(...) of the cleaned text; the local text
\* is gone on return (response stays as the record of what the model answered)
JsonLoads ==
    /\ pc = "loads"
    /\ LET r == json_loads(cleaned(variant, text))
       IN  IF r.ok
           THEN /\ scores' = r.value
                /\ pc' = IF variant = "filter" THEN "select" ELSE "sort"
                /\ UNCHANGED << exit_status, failure >>
                /\ text' = << >>
           ELSE Raise("parse") /\ UNCHANGED << scores, text >>
    /\ UNCHANGED << variant, webhook_url, stubs, emails, response, paired,
                    idx, msg, outbox, rendered, calls, log >>

\* filter main(): high_priority = [...]; scores[i] raises IndexError on a short list;
\* if not high_priority: print("... nothing posted to Slack."); return
SelectHighPriority ==
    /\ pc = "select"
    /\ IF Len(scores) < Len(emails)
       THEN Raise("index") /\ UNCHANGED paired
       ELSE /\ paired' = high_priority(emails, scores)
            /\ IF paired' = << >> THEN ExitOk
               ELSE pc' = "render" /\ UNCHANGED << exit_status, failure >>
    /\ UNCHANGED << variant, webhook_url, stubs, emails, response, text, scores,
                    idx, msg, outbox, rendered, calls, log >>

\* filter post_to_slack: build the text of the next pair of high_priority
RenderOne ==
    /\ pc = "render"
    /\ idx < Len(paired)
    /\ log' = Entered("render")
    /\ msg' = render_one(paired[idx + 1])
    /\ rendered' = rendered + 1
    /\ pc' = "post"
    /\ UNCHANGED << variant, webhook_url, exit_status, failure, stubs, emails, response,
                    text, scores, paired, idx, outbox, calls >>

\* a slip: a failed post is tried again (once per pair) instead of raising
PostOne_Retry ==
    /\ pc = "post"
    /\ log' = Entered("deliver")
    /\ calls' = [calls EXCEPT !.webhook = @ + 1]
    /\ \E ok \in BOOLEAN :
        /\ outbox' = Append(outbox, [text |-> msg, ok |-> ok])
        /\ IF ~ok /\ Len(outbox) <= idx
           THEN UNCHANGED << pc, exit_status, failure, idx >>
           ELSE IF ~ok THEN Raise("delivery") /\ UNCHANGED idx
           ELSE /\ idx' = idx + 1
                /\ IF idx' = Len(paired) THEN ExitOk
                   ELSE pc' = "render" /\ UNCHANGED << exit_status, failure >>
    /\ UNCHANGED << variant, webhook_url, stubs, emails, response, text, scores, paired,
                    msg, rendered >>

\* filter post_to_slack: requests.post(...); resp.raise_for_status(); then the
\* next pass of `for email, score in high_priority`, or print("Done.")
PostOne ==
    /\ pc = "post"
    /\ log' = Entered("deliver")
    /\ calls' = [calls EXCEPT !.webhook = @ + 1]
    /\ \E ok \in BOOLEAN :
        /\ outbox' = Append(outbox, [text |-> msg, ok |-> ok])
        /\ IF ~ok THEN Raise("delivery") /\ UNCHANGED idx
           ELSE /\ idx' = idx + 1
                /\ IF idx' = Len(paired) THEN ExitOk
                   ELSE pc' = "render" /\ UNCHANGED << exit_status, failure >>
    /\ UNCHANGED << variant, webhook_url, stubs, emails, response, text, scores, paired,
                    msg, rendered >>

\* a slip: the digest script keeping the filter's "nothing posted" early return
SortPaired_SkipLow ==
    /\ pc = "sort"
    /\ log' = Entered("render")
    /\ paired' = sorted_by_priority_desc(zip(emails, scores))
    /\ IF \A i \in DOMAIN scores : scores[i].priority < PriorityThreshold
       THEN ExitOk
       ELSE pc' = "render_digest" /\ UNCHANGED << exit_status, failure >>
    /\ UNCHANGED << variant, webhook_url, stubs, emails, response,
                    text, scores, idx, msg, outbox, rendered, calls >>

\* digest main(): action_count is only printed; then post_digest_to_slack:
\* paired = sorted(zip(emails, scores), ...)
SortPaired ==
    /\ pc = "sort"
    /\ log' = Entered("render")
    /\ paired' = sorted_by_priority_desc(zip(emails, scores))
    /\ pc' = "render_digest"
    /\ UNCHANGED << variant, webhook_url, exit_status, failure, stubs, emails, response,
                    text, scores, idx, msg, outbox, rendered, calls >>

\* digest post_digest_to_slack: lines = [header]; for email, score in paired: ...
RenderDigest ==
    /\ pc = "render_digest"
    /\ log' = Entered("render")
    /\ msg' = render_digest(emails, paired)
    /\ rendered' = Len(paired)
    /\ pc' = "post_digest"
    /\ UNCHANGED << variant, webhook_url, exit_status, failure, stubs, emails, response,
                    text, scores, paired, idx, outbox, calls >>

\* digest post_digest_to_slack: requests.post(...); resp.raise_for_status(); print("Done.")
PostDigest ==
    /\ pc = "post_digest"
    /\ log' = Entered("deliver")
    /\ calls' = [calls EXCEPT !.webhook = @ + 1]
    /\ \E ok \in BOOLEAN :
        /\ outbox' = Append(outbox, [text |-> msg, ok |-> ok])
        /\ IF ok THEN ExitOk ELSE Raise("delivery")
    /\ UNCHANGED << variant, webhook_url, stubs, emails, response, text, scores, paired,
                    idx, msg, rendered >>

Next ==
    \/ CheckWebhookUrl
    \/ get_gmail_service
    \/ ListMessages
    \/ GetMessage
    \/ CheckEmails
    \/ messages_create
    \/ ExtractText
    \/ JsonLoads
    \/ SelectHighPriority
    \/ RenderOne
    \/ PostOne
    \/ SortPaired
    \/ RenderDigest
    \/ PostDigest

Spec == Init /\ [][Next]_vars

\* ---------------------------------------------------------------- properties

Stages == << "config", "auth", "fetch", "score", "render", "deliver" >>

Range(s) == { s[i] : i \in DOMAIN s }

IsPrefix(a, b) == Len(a) <= Len(b) /\ \A i \in DOMAIN a : a[i] = b[i]

\* fetch_unread_emails has returned its list to main()
FetchReturned ==
    /\ calls.list = 1
    /\ failure # "fetch"
    /\ Len(emails) = Len(stubs)
    /\ pc # "get"

\* score_emails has returned a list to main()
ScoreEmailsReturned ==
    \/ pc \in {"select", "sort", "render", "post", "render_digest", "post_digest"}
    \/ /\ pc = "exit"
       /\ "score" \in Range(log)
       /\ failure \notin {"model", "content", "parse"}

\* the one text block of the response, when it has exactly one
TextBlocks == { i \in DOMAIN response : response[i].type = "text" }

TheText == response[CHOOSE i \in TextBlocks : TRUE].text

\* the arrays serialized in the text block of the response
ArraysOf(t) == { t[i].v : i \in { j \in DOMAIN t : t[j].k = "array" } }

\* the response with its text block replaced by the bare array a
Unwrapped(content, a) ==
    [i \in DOMAIN content |->
        IF content[i].type = "text" THEN TextBlock(Bare(a)) ELSE content[i]]

\* C1: once score_emails has returned, it has returned exactly one score per
\* email: a response array of any other length never gets past scoring.
C1_ScoresMatchEmails ==
    ScoreEmailsReturned => Len(scores) = Len(emails)

\* C2 (as claimed): the webhook is called at most once in a run, and a run that
\* aborts on a delivery failure has delivered nothing before.
C2_AtMostOneWebhookCall ==
    /\ calls.webhook <= 1
    /\ failure = "delivery" => \A k \in DOMAIN outbox : ~outbox[k].ok

\* C2 (amended): the digest script calls the webhook at most once; the filter
\* script makes at most one attempt per selected pair, in the order of
\* high_priority, never repeats an attempt, and stops at the first failed one,
\* so that every attempt before a failed one was delivered.
C2_OneAttemptPerNotification ==
    /\ Len(outbox) = calls.webhook
    /\ variant = "digest" => calls.webhook <= 1
    /\ variant = "filter" =>
        /\ calls.webhook <= Len(paired)
        /\ \A k \in DOMAIN outbox :
            /\ Len(outbox[k].text.entries) = 1
            /\ outbox[k].text.entries[1].id = paired[k].email.id
    /\ \A k \in DOMAIN outbox : ~outbox[k].ok =>
        /\ k = Len(outbox)
        /\ pc = "exit" /\ exit_status = "error" /\ failure = "delivery"

\* C2 witness: a filter run delivered its first notification and aborted on the second.
C2_Witness ==
    /\ variant = "filter"
    /\ Len(outbox) = 2
    /\ outbox[1].ok /\ ~outbox[2].ok
    /\ exit_status = "error" /\ failure = "delivery"

\* C3: in the filter script, with as many scores as emails, high_priority holds
\* exactly the pairs (emails[i], scores[i]) with scores[i].priority >= 4, in
\* fetch order; these are the notifications posted, in that order; and with no
\* such pair the run ends successfully without any webhook call.
C3_FilterSelectsHighPriority ==
    LET H == { i \in 1..Len(emails) : scores[i].priority >= 4 }
        kth(k) == CHOOSE i \in H : Cardinality({ j \in H : j <= i }) = k
    IN  ( /\ variant = "filter"
          /\ ScoreEmailsReturned
          /\ pc # "select"
          /\ Len(scores) = Len(emails) )
        => /\ Len(paired) = Cardinality(H)
           /\ \A k \in DOMAIN paired :
                /\ paired[k].email = emails[kth(k)]
                /\ paired[k].score = scores[kth(k)]
           /\ Len(outbox) <= Len(paired)
           /\ \A k \in DOMAIN outbox :
                /\ outbox[k].text.entries[1].id = emails[kth(k)].id
                /\ outbox[k].text.entries[1].priority = scores[kth(k)].priority
           /\ H = {} =>
                /\ pc = "exit" /\ exit_status = "ok"
                /\ calls.webhook = 0 /\ outbox = << >>

\* C3 witness: two emails scored 3 and 4; only the second was selected and posted.
C3_Witness ==
    /\ variant = "filter"
    /\ Len(emails) = 2 /\ Len(scores) = 2
    /\ scores[1].priority = 3 /\ scores[2].priority = 4
    /\ Len(paired) = 1 /\ paired[1].email = emails[2]
    /\ pc = "exit" /\ exit_status = "ok"
    /\ Len(outbox) = 1 /\ outbox[1].text.entries[1].id = emails[2].id

\* C4: in the digest script, the rendered entries are the pairs
\* (emails[i], scores[i]) zip() forms, each exactly once, in descending
\* priority, and entries of equal priority are in fetch order.
C4_DigestSortedStable ==
    LET n == Min(Len(emails), Len(scores))
        E == msg.entries
        pos(k) == CHOOSE i \in 1..n : emails[i].id = E[k].id
    IN  (variant = "digest" /\ msg.header # << >>)
        => /\ Len(E) = n
           /\ msg.header = << Len(emails) >>
           /\ \A k \in 1..Len(E) : \E i \in 1..n :
                /\ E[k].id = emails[i].id
                /\ E[k].priority = scores[i].priority
                /\ E[k].action = scores[i].action_needed
           /\ \A i \in 1..n : \E k \in 1..Len(E) : E[k].id = emails[i].id
           /\ \A j, k \in 1..Len(E) : j < k =>
                /\ E[j].priority >= E[k].priority
                /\ E[j].priority = E[k].priority => pos(j) < pos(k)

\* C4 witness: a digest of two emails of equal priority was rendered and
\* posted with its two entries in fetch order.
C4_Witness ==
    /\ variant = "digest"
    /\ Len(emails) = 2 /\ Len(scores) = 2
    /\ scores[1].priority = scores[2].priority
    /\ Len(outbox) = 1
    /\ Len(outbox[1].text.entries) = 2
    /\ outbox[1].text.entries[1].id = emails[1].id
    /\ outbox[1].text.entries[2].id = emails[2].id

\* C5: with the webhook URL unset or empty, no collaborator is ever called and
\* the run, once over, has ended with the configuration error.
C5_NoWebhookUrlNoCalls ==
    webhook_url \in {"unset", "empty"} =>
        /\ calls = NoCalls
        /\ outbox = << >>
        /\ pc \in {"start", "exit"}
        /\ pc = "exit" => exit_status = "error" /\ failure = "config"

\* C5 witness: a run with an empty webhook URL has ended with the error.
C5_Witness ==
    /\ webhook_url = "empty"
    /\ pc = "exit" /\ exit_status = "error"
    /\ calls = NoCalls

\* C6: when the listing returns no message, the run makes no per-message
\* fetch, no model call and no webhook call, and its next step is the
\* successful exit.
C6_EmptyMailboxExitsCleanly ==
    (calls.list = 1 /\ failure # "fetch" /\ stubs = << >>) =>
        /\ calls.get = 0 /\ calls.model = 0 /\ calls.webhook = 0
        /\ outbox = << >>
        /\ log = << "config", "auth", "fetch" >>
        /\ \/ pc = "get"
           \/ pc = "exit" /\ exit_status = "ok"

\* C6 witness: a run over an empty mailbox has ended successfully.
C6_Witness ==
    /\ calls.list = 1 /\ stubs = << >>
    /\ pc = "exit" /\ exit_status = "ok"

\* C7: a digest run that fetched at least one message and got its list of
\* scores back has, once over, called the webhook exactly once, whatever the
\* priorities and action flags are.
C7_DigestAlwaysSendsOne ==
    ( /\ variant = "digest"
      /\ pc = "exit"
      /\ FetchReturned /\ Len(emails) >= 1
      /\ ScoreEmailsReturned )
    => calls.webhook = 1 /\ Len(outbox) = 1

\* C7 witness: a digest run whose scores are all low and need no action has
\* posted its one message.
C7_Witness ==
    /\ variant = "digest"
    /\ pc = "exit" /\ exit_status = "ok"
    /\ Len(emails) = 2 /\ Len(scores) = 2
    /\ \A i \in DOMAIN scores : scores[i].priority = 3 /\ ~scores[i].action_needed
    /\ calls.webhook = 1 /\ outbox[1].ok

\* C8, the part both scripts share: the model is called only after every
\* per-message fetch, at most once, and exactly once in a finished run that
\* fetched a message; rendering starts only after score_emails returned.
C8_FetchScoreRenderOrder ==
    /\ calls.model > 0 => calls.get = Len(stubs) /\ Len(emails) = Len(stubs)
    /\ calls.model <= 1
    /\ (pc = "exit" /\ FetchReturned /\ Len(emails) >= 1) => calls.model = 1
    /\ (rendered > 0 \/ "render" \in Range(log)) => ScoreEmailsReturned

\* C8 (as claimed): on top of that, every pair is rendered before the first
\* webhook call, and the run enters the stages in order, each at most once.
C8_StrictSinglePass ==
    /\ C8_FetchScoreRenderOrder
    /\ outbox # << >> => rendered = Len(paired)
    /\ IsPrefix(log, Stages)

\* C8 (amended): the shared part holds in both scripts; the digest script
\* renders everything before its webhook call and enters no stage twice; the
\* filter script renders each selected pair right before posting it, so that
\* rendering and delivery alternate, once per pair.
C8_SinglePassPerVariant ==
    /\ C8_FetchScoreRenderOrder
    /\ variant = "digest" =>
        /\ outbox # << >> => rendered = Len(paired)
        /\ IsPrefix(log, Stages)
    /\ variant = "filter" =>
        /\ rendered \in {Len(outbox), Len(outbox) + 1}
        /\ rendered <= Len(paired)
        /\ \A k \in DOMAIN outbox : outbox[k].text.entries[1].id = paired[k].email.id
        /\ IsPrefix(SubSeq(log, 1, Min(Len(log), 4)), Stages)
        /\ \A i \in 5..Len(log) : log[i] = IF (i - 4) % 2 = 1 THEN "render" ELSE "deliver"

\* C8 witness: a filter run rendered and posted its first pair, then rendered
\* and posted its second.
C8_Witness ==
    /\ variant = "filter"
    /\ pc = "exit" /\ exit_status = "ok"
    /\ log = << "config", "auth", "fetch", "score", "render", "deliver", "render", "deliver" >>
    /\ rendered = 2 /\ Len(outbox) = 2

\* what score_emails made of the response: the list it returned, or ok = FALSE
\* when it raised on the response
Outcome ==
    IF ScoreEmailsReturned THEN [ok |-> TRUE, value |-> scores]
    ELSE [ok |-> FALSE, value |-> << >>]

\* score_emails is done with the response: it has returned or raised
ResponseHandled == response # << >> /\ pc \notin {"extract", "loads"}

\* C9: a response whose text is a valid score array in a code fence (with or
\* without a language tag, with or without a newline after the opening
\* marker) is parsed to what the same response without the fence is parsed to.
C9_FenceStrippingIdempotent ==
    (ResponseHandled /\ Cardinality(TextBlocks) = 1) =>
        \A a \in ArraysOf(TheText) :
            TheText \in Fenced(a) =>
                Outcome = parse_response(variant, Unwrapped(response, a))

\* C10 (as claimed): a response with one or more thinking blocks, anywhere,
\* and exactly one text block is parsed to what the text block alone is
\* parsed to.
C10_ThinkingDiscarded ==
    ( /\ ResponseHandled
      /\ Cardinality(TextBlocks) = 1
      /\ Len(response) > 1 )
    => Outcome = parse_response(variant, << TextBlock(TheText) >>)

\* C10 (amended): the filter script does so wherever the thinking blocks are;
\* the digest script reads the first block only: it does so when the text
\* block comes first, and score_emails raises when a thinking block comes first.
C10_ThinkingDiscardedByFilter ==
    ( /\ ResponseHandled
      /\ Cardinality(TextBlocks) = 1
      /\ Len(response) > 1 )
    => IF variant = "filter" \/ response[1].type = "text"
       THEN Outcome = parse_response(variant, << TextBlock(TheText) >>)
       ELSE pc = "exit" /\ exit_status = "error" /\ failure = "content"

\* C10 witness: the filter script has returned the two scores of a response
\* whose first block is a thinking block.
C10_Witness ==
    /\ variant = "filter"
    /\ ScoreEmailsReturned
    /\ Len(response) = 2
    /\ response[1].type = "thinking" /\ response[2].type = "text"
    /\ Len(scores) = 2
    /\ TheText = Bare(scores)

====
